---- MODULE Spec2Model ----
(***************************************************************************)
(* The three GitLab poll loops of gitlab/events.py (pipelines, pushes,     *)
(* merge requests), the fetch functions of gitlab/api.py they call, and    *)
(* the way telegram_bot.start_polling runs them under asyncio.gather.      *)
(*                                                                         *)
(* A coroutine is modelled by its position (pc) and its local variables;   *)
(* one action is the code a coroutine runs between two awaits.  What the   *)
(* GitLab server answers and how the Telegram callback ends are inputs.    *)
(***************************************************************************)
EXTENDS Integers, Sequences, FiniteSets, TLC

Loops == {"pipeline", "push", "mr"}

\* The poll loops, and the loop of gitlab_monitor.monitor.
Coroutines == Loops \cup {"monitor"}

\* Python's None, and a dict key that is absent.
None == [none |-> TRUE]

\* Number of ticks (iterations of `while True`) a loop is followed for.
MaxTicks == 3
\* Longest project list the server returns.
MaxProjects == 2
\* Number of ticks each loop is followed for when the three run together.
GatherTicks == 2

Has(d, k) == k \in DOMAIN d

SeqsUpTo(S, n) == UNION {[1..k -> S] : k \in 0..n}

Last(s) == s[Len(s)]

(***************************************************************************)
(* What the server can answer.                                             *)
(***************************************************************************)
\* api.Project entries of the project list.
ProjectCatalog ==
    { [id |-> 1, name |-> "alpha"],
      [id |-> 2, name |-> "beta"] }

ProjectIds == {p.id : p \in ProjectCatalog}

\* api.Pipeline: the latest pipeline of a project.
PipelineCatalog ==
    { [id |-> 100, status |-> "running"],
      [id |-> 100, status |-> "success"],
      [id |-> 101, status |-> "running"] }

\* api.RawEvent entries of a project's event feed.  RawEvent and PushData
\* are declared total=False: every key may be absent.
RawEventCatalog ==
    { [id |-> 9001, push_data |-> [ref |-> "main", commit_count |-> 1],
       author_username |-> "ann"],
      [id |-> 9002, push_data |-> [ref |-> "main", commit_count |-> 1],
       author_username |-> "ann"],
      [id |-> 9002, push_data |-> [ref |-> "dev", commit_count |-> 2],
       author_username |-> "bob"],
      \* an entry whose push_data is null: a comment, MR activity
      [id |-> 9003, push_data |-> None, author_username |-> "ann"],
      \* an entry with no push_data key at all
      [id |-> 9004, author_username |-> "ann"],
      \* a push whose push_data lacks ref
      [id |-> 9001, push_data |-> [commit_count |-> 1],
       author_username |-> "ann"],
      \* a push that lacks author_username
      [id |-> 9002, push_data |-> [ref |-> "main", commit_count |-> 1]] }

\* api.MergeRequest entries; MergeRequest is declared total=False.
MergeRequestCatalog ==
    { [id |-> 5, state |-> "opened", author |-> [username |-> "ann"]],
      [id |-> 5, state |-> "merged", author |-> [username |-> "ann"]],
      [id |-> 7, state |-> "opened", author |-> [username |-> "bob"]],
      [id |-> 7, state |-> "merged", author |-> [username |-> "bob"]],
      \* a merge request without author
      [id |-> 5, state |-> "merged"] }

MrIds == {m.id : m \in MergeRequestCatalog}

\* A response of the server to one GET: 200 with a JSON body, another
\* status, a transport failure aiohttp reports as ClientError, or a failure
\* it reports otherwise (asyncio.TimeoutError, a body that is not JSON).
Failures ==
    { [kind |-> "status"], [kind |-> "client_error"], [kind |-> "other_error"] }

Ok(bodies) == {[kind |-> "ok", body |-> b] : b \in bodies}

ProjectLists == SeqsUpTo(ProjectCatalog, MaxProjects)

\* per_page=1: at most one pipeline.
PipelineLists == SeqsUpTo(PipelineCatalog, 1)

\* The feeds and merge request lists are cut to two entries (per_page=5 in
\* the code).  The entries of one list have different ids.
DistinctIds(s) == \A i, j \in 1..Len(s) : i # j => s[i].id # s[j].id

\* The push loop reads the push_data of every entry and takes the first
\* entry that has some: a second entry matters after an entry without
\* push metadata, and when it has no push_data key.
EventLists ==
    {s \in SeqsUpTo(RawEventCatalog, 2) :
        /\ DistinctIds(s)
        /\ Len(s) = 2 => \/ ~Has(s[1], "push_data")
                         \/ s[1].push_data = None
                         \/ ~Has(s[2], "push_data")
                         \/ s[2].push_data = None}

\* The merge request loop reads index 0 only: the second entry is one of
\* the well-formed merge requests of the catalog.
MergeRequestLists ==
    {s \in SeqsUpTo(MergeRequestCatalog, 2) :
        /\ DistinctIds(s)
        /\ Len(s) = 2 => Has(s[2], "author") /\ s[2].state = "opened"}

ProjectsResponses == Failures \cup Ok(ProjectLists)

ItemResponses(l) ==
    Failures \cup
    Ok(CASE l = "pipeline" -> PipelineLists
         [] l = "push" -> EventLists
         [] l = "mr" -> MergeRequestLists)

(***************************************************************************)
(* gitlab/http_client.py and gitlab/api.py.  A call ends in one of         *)
(*   [tag |-> "json", value |-> v]   the value returned                    *)
(*   [tag |-> "none"]                None returned                         *)
(*   [tag |-> "raise"]               an exception leaves the call          *)
(***************************************************************************)
get_json(resp) ==
    IF resp.kind = "ok" THEN [tag |-> "json", value |-> resp.body]
    ELSE IF resp.kind \in {"status", "client_error"} THEN [tag |-> "none"]
    ELSE [tag |-> "raise"]

fetch_all_projects(resp) == get_json(resp)

fetch_pipeline(resp) ==
    LET pipelines == get_json(resp) IN
    IF pipelines.tag = "json"
    THEN IF Len(pipelines.value) > 0
         THEN [tag |-> "json", value |-> pipelines.value[1]]
         ELSE [tag |-> "none"]
    ELSE pipelines

fetch_merge_requests(resp) == get_json(resp)

fetch_project_events(resp) == get_json(resp)

\* `if not projects:`, `if not events_list:`, `if not mrs:` -- None or [].
Falsy(r) == r.tag = "none" \/ (r.tag = "json" /\ Len(r.value) = 0)

(***************************************************************************)
(* Python dicts: functions whose domain is the set of keys present.        *)
(***************************************************************************)
EmptyDict == [k \in {} |-> None]

\* An assignment that leaves the dict with the assigned key alone.
DictReplace(d, k, v) == [x \in {k} |-> v]

DictSet(d, k, v) == [x \in DOMAIN d \cup {k} |-> IF x = k THEN v ELSE d[x]]

\* d.get(k): None, or the value found (wrapped, so that it compares with None).
Known(v) == [known |-> v]

DictGet(d, k) == IF k \in DOMAIN d THEN Known(d[k]) ELSE None

(***************************************************************************)
(* State.                                                                  *)
(***************************************************************************)
VARIABLES
    pc,               \* per loop: "idle" (not started), "sleep", "projects",
                      \*   "item", "callback", "crashed", "stalled"
    first_run,        \* per loop: the local first_run
    projects,         \* per loop: the local projects (list of this tick)
    idx,              \* per loop: position of `for project in projects`
    obs,              \* per loop: the observation of the current iteration
                      \*   (pipeline / latest_push / latest_mr), None if none
    prev,             \* per loop: the local prev / prev_id / prev_state
    event,            \* per loop: the local event while the callback has it
    previous_status,  \* poll_pipeline_events: dict project_id -> Pipeline
    previous_push,    \* poll_push_events: dict project_id -> event id
    previous_mr,      \* poll_mr_events: dict project_id -> dict mr_id -> state
    running,          \* per loop: callback coroutines started, not finished
    failure,          \* per loop: the exception that ended the coroutine
    polling,          \* start_polling's await of asyncio.gather
    monitor_previous_status,
                      \* gitlab_monitor.monitor: dict project_id -> pipeline
    config,           \* config.toml: is telegram.token / gitlab.token set
    process,          \* the entry point run, and whether it is at its start,
                      \*   running its loops, or has exited
    session,          \* http_client.session: None or a ClientSession
    sessions,         \* number of ClientSession objects created (history)
    request,          \* per loop: the session its GET in flight runs on
    ticks,            \* per loop: ticks completed (history)
    log               \* per loop: the project entries processed in the
                      \*   current tick, in order (history)

locals == <<first_run, projects, idx, obs, prev, event>>
detector == <<previous_status, previous_push, previous_mr>>
startup == <<config, process>>
http == <<session, sessions, request>>
vars ==
    <<pc, locals, detector, running, failure, polling, ticks, log,
      monitor_previous_status, startup, http>>

(***************************************************************************)
(* The body of one `for project in projects` iteration, events.py.         *)
(***************************************************************************)
\* The per-project fetch of loop l.
Fetch(l, resp) ==
    CASE l = "pipeline" -> fetch_pipeline(resp)
      [] l = "push" -> fetch_project_events(resp)
      [] l = "mr" -> fetch_merge_requests(resp)

HasPushData(e) == e.push_data # None

\* From what the fetch returned to the observation of this iteration:
\* pipeline (l. 82-84), latest_push (l. 142-149), latest_mr (l. 201-204).
Observe(l, r) ==
    CASE l = "pipeline" -> r
      [] l = "push" ->
           IF Falsy(r) THEN [tag |-> "none"]
           \* [event for event in events_list if event['push_data']]
           ELSE IF \E i \in 1..Len(r.value) : ~Has(r.value[i], "push_data")
           THEN [tag |-> "raise"]
           ELSE LET push_events == SelectSeq(r.value, HasPushData) IN
                IF Len(push_events) = 0 THEN [tag |-> "none"]
                ELSE [tag |-> "json", value |-> push_events[1]]
      [] l = "mr" ->
           IF Falsy(r) THEN [tag |-> "none"]
           ELSE [tag |-> "json", value |-> r.value[1]]

\* A pipeline loop that keeps the pipeline id and not its status.
ValueWithoutStatus(l, o) ==
    CASE l = "pipeline" -> [id |-> o.id, status |-> "unknown"]
      [] l = "push" -> o.id
      [] l = "mr" -> o.state

\* The value the detector keeps for an observation.
Value(l, o) ==
    CASE l = "pipeline" -> [id |-> o.id, status |-> o.status]
      [] l = "push" -> o.id
      [] l = "mr" -> o.state

\* The merge request loop keyed by project only: the state of whichever
\* merge request of the project was stored.
LookupByProject(l, project_id, o, d_status, d_push, d_mr) ==
    CASE l = "pipeline" -> DictGet(d_status, project_id)
      [] l = "push" -> DictGet(d_push, project_id)
      [] l = "mr" ->
           IF project_id \in DOMAIN d_mr
           THEN LET m == CHOOSE m \in DOMAIN d_mr[project_id] :
                           (o.id \in DOMAIN d_mr[project_id] => m = o.id)
                IN  Known(d_mr[project_id][m])
           ELSE None

\* previous_status.get(project_id), previous_push.get(project_id),
\* previous_mr.get(project_id, {}).get(mr_id)
Lookup(l, project_id, o, d_status, d_push, d_mr) ==
    CASE l = "pipeline" -> DictGet(d_status, project_id)
      [] l = "push" -> DictGet(d_push, project_id)
      [] l = "mr" ->
           IF project_id \in DOMAIN d_mr
           THEN DictGet(d_mr[project_id], o.id)
           ELSE None

\* The pipeline loop comparing the pipeline id only.
DiffersIdOnly(l, v, o) ==
    CASE l = "pipeline" -> v.id # o.id
      [] l = "push" -> o.id # v
      [] l = "mr" -> v # o.state

\* The inequality tests of l. 94, 155 and 211, against the kept value v.
Differs(l, v, o) ==
    CASE l = "pipeline" -> v.id # o.id \/ v.status # o.status
      [] l = "push" -> o.id # v
      [] l = "mr" -> v # o.state

\* Keys read by subscript after the detector was updated.
\* push: push_data['ref'], push_data['commit_count'] (l. 158-159)
PayloadComplete(l, o) ==
    l = "push" => Has(o.push_data, "ref") /\ Has(o.push_data, "commit_count")

\* push: latest_push['author_username'] (l. 169);
\* mr: latest_mr['author']['username'] (l. 222)
AuthorPresent(l, o) ==
    CASE l = "pipeline" -> TRUE
      [] l = "push" -> Has(o, "author_username")
      [] l = "mr" -> Has(o, "author") /\ Has(o.author, "username")

\* Classify without the `if not first_run:` of l. 99, 160, 213.
ClassifyNoGate(l, p, o, fr) ==
    IF p = None THEN "first"
    ELSE IF ~Differs(l, p.known, o) THEN "same"
    ELSE IF ~PayloadComplete(l, o) \/ ~AuthorPresent(l, o) THEN "keyerror"
    ELSE "event"

\* Classify without the `if prev is None:` branch of l. 88, 152, 208: only
\* first_run keeps a first sighting quiet.
ClassifyFlagOnly(l, p, o, fr) ==
    IF p # None /\ ~Differs(l, p.known, o) THEN "same"
    ELSE IF ~PayloadComplete(l, o) THEN "keyerror"
    ELSE IF fr THEN (IF p = None THEN "first" ELSE "muted")
    ELSE IF ~AuthorPresent(l, o) THEN "keyerror"
    ELSE "event"

\* Classify without the comparison of l. 94, 155, 211: every observation of
\* a known key counts as a change.
ClassifyNoCompare(l, p, o, fr) ==
    IF p = None THEN "first"
    ELSE IF ~PayloadComplete(l, o) THEN "keyerror"
    ELSE IF fr THEN "muted"
    ELSE IF ~AuthorPresent(l, o) THEN "keyerror"
    ELSE "event"

\* What an iteration does with observation o when the detector holds p
\* (None or Known) for its key and first_run is fr:
\*   "first"     entry created, continue                 (l. 88-93)
\*   "same"      nothing                                  (l. 94 false)
\*   "muted"     entry updated, no event: first_run       (l. 99 false)
\*   "event"     entry updated, callback(event) called    (l. 100-108)
\*   "keyerror"  entry updated, then a subscript raises KeyError
Classify(l, p, o, fr) ==
    IF p = None THEN "first"
    ELSE IF ~Differs(l, p.known, o) THEN "same"
    ELSE IF ~PayloadComplete(l, o) THEN "keyerror"
    ELSE IF fr THEN "muted"
    ELSE IF ~AuthorPresent(l, o) THEN "keyerror"
    ELSE "event"

\* An event named after the first project of the list, whichever project
\* is being processed.
BuildEventFirstProject(l, project, o) ==
    LET first == projects[l][1] IN
    CASE l = "pipeline" ->
           [type |-> "pipeline", project_id |-> first.id,
            project_name |-> first.name,
            pipeline_id |-> o.id, status |-> o.status]
      [] l = "push" ->
           [type |-> "push", project_id |-> first.id,
            project_name |-> first.name, event_id |-> o.id,
            branch |-> o.push_data.ref,
            commit_count |-> o.push_data.commit_count,
            author |-> o.author_username]
      [] l = "mr" ->
           [type |-> "merge_request", project_id |-> first.id,
            project_name |-> first.name, mr_id |-> o.id,
            state |-> o.state, author |-> o.author.username]

\* The event dict handed to the callback (without its timestamp).
BuildEvent(l, project, o) ==
    CASE l = "pipeline" ->
           [type |-> "pipeline", project_id |-> project.id,
            project_name |-> project.name,
            pipeline_id |-> o.id, status |-> o.status]
      [] l = "push" ->
           [type |-> "push", project_id |-> project.id,
            project_name |-> project.name, event_id |-> o.id,
            branch |-> o.push_data.ref,
            commit_count |-> o.push_data.commit_count,
            author |-> o.author_username]
      [] l = "mr" ->
           [type |-> "merge_request", project_id |-> project.id,
            project_name |-> project.name, mr_id |-> o.id,
            state |-> o.state, author |-> o.author.username]

\* The detector is written after the callback returned, so not when an
\* event is dispatched.
UpdatesUnlessDispatched(kind) == kind \in {"first", "muted", "keyerror"}

\* The detector is written on a first sighting only.
UpdatesFirstOnly(kind) == kind = "first"

\* previous_...[key] = value, for the outcomes that update the detector.
Updates(kind) == kind \in {"first", "muted", "event", "keyerror"}

(***************************************************************************)
(* Actions: the code of a loop between two awaits.                         *)
(***************************************************************************)
\* One ClientSession for each coroutine: the first call of a loop creates
\* its own.
StartRequestPerLoop(l) ==
    LET first_call == ticks[l] = 0 /\ pc[l] = "sleep" IN
    /\ session' = IF first_call THEN Known(sessions + 1) ELSE session
    /\ sessions' = IF first_call THEN sessions + 1 ELSE sessions
    /\ request' = [request EXCEPT ![l] = session']

\* The synchronous start of get_json, up to `session.get(...)`:
\* `if not session: session = aiohttp.ClientSession()` (http_client.py
\* l. 27-29).  No await separates the test from the assignment.
StartRequest(l) ==
    /\ session' = IF session = None THEN Known(sessions + 1) ELSE session
    /\ sessions' = IF session = None THEN sessions + 1 ELSE sessions
    /\ request' = [request EXCEPT ![l] = session']

\* get_json has returned or raised: loop l has no GET in flight.
EndRequest(l) ==
    /\ request' = [request EXCEPT ![l] = None]
    /\ UNCHANGED <<session, sessions>>

\* A gather that cancels the remaining loops when one of them fails (the
\* behaviour of asyncio.TaskGroup).
PropagateCancels(l, why) ==
    /\ pc' = [m \in Coroutines |->
                IF m = l THEN "crashed"
                ELSE IF pc[m] \in {"idle", "crashed", "stalled"} THEN pc[m]
                ELSE "cancelled"]
    /\ failure' = [failure EXCEPT ![l] = why]
    /\ polling' = "failed"
    /\ EndRequest(l)

\* An exception leaves the coroutine of loop l.  asyncio.gather hands the
\* first exception to start_polling and leaves the other loops running
\* (telegram_bot.py l. 185-189).
Propagate(l, why) ==
    /\ pc' = [pc EXCEPT ![l] = "crashed"]
    /\ failure' = [failure EXCEPT ![l] = why]
    /\ polling' = "failed"
    /\ EndRequest(l)

\* A loop body that is run again for the same list entry instead of
\* moving on to the next project.
NextIterationRepeats(l) ==
    IF idx[l] < Len(projects[l])
    THEN /\ pc' = [pc EXCEPT ![l] = "item"]
         /\ StartRequest(l)
         /\ UNCHANGED <<idx, first_run, ticks>>
    ELSE /\ first_run' = [first_run EXCEPT ![l] = FALSE]
         /\ pc' = [pc EXCEPT ![l] = "sleep"]
         /\ ticks' = [ticks EXCEPT ![l] = @ + 1]
         /\ EndRequest(l)
         /\ UNCHANGED idx

\* A loop that never leaves its warm-up: no `first_run = False` after the
\* `for`.
NextIterationKeepsFlag(l) ==
    IF idx[l] < Len(projects[l])
    THEN /\ idx' = [idx EXCEPT ![l] = @ + 1]
         /\ pc' = [pc EXCEPT ![l] = "item"]
         /\ StartRequest(l)
         /\ UNCHANGED <<first_run, ticks>>
    ELSE /\ pc' = [pc EXCEPT ![l] = "sleep"]
         /\ ticks' = [ticks EXCEPT ![l] = @ + 1]
         /\ EndRequest(l)
         /\ UNCHANGED <<idx, first_run>>

\* A warm-up of two ticks: first_run is cleared at the end of a `for` only
\* from the second tick on.
NextIterationLongWarmUp(l) ==
    IF idx[l] < Len(projects[l])
    THEN /\ idx' = [idx EXCEPT ![l] = @ + 1]
         /\ pc' = [pc EXCEPT ![l] = "item"]
         /\ StartRequest(l)
         /\ UNCHANGED <<first_run, ticks>>
    ELSE /\ first_run' = [first_run EXCEPT ![l] = @ /\ ticks[l] = 0]
         /\ pc' = [pc EXCEPT ![l] = "sleep"]
         /\ ticks' = [ticks EXCEPT ![l] = @ + 1]
         /\ EndRequest(l)
         /\ UNCHANGED idx

\* End of an iteration of `for project in projects`: the next project
\* (its fetch is called), or after the last one `first_run = False` and
\* back to the sleep.
NextIteration(l) ==
    IF idx[l] < Len(projects[l])
    THEN /\ idx' = [idx EXCEPT ![l] = @ + 1]
         /\ pc' = [pc EXCEPT ![l] = "item"]
         /\ StartRequest(l)
         /\ UNCHANGED <<first_run, ticks>>
    ELSE /\ first_run' = [first_run EXCEPT ![l] = FALSE]
         /\ pc' = [pc EXCEPT ![l] = "sleep"]
         /\ ticks' = [ticks EXCEPT ![l] = @ + 1]
         /\ EndRequest(l)
         /\ UNCHANGED idx

\* asyncio.create_task(callback(event)): the loop goes on at once.
DispatchNoAwait(l) == NextIteration(l)

\* `await callback(event)`: the loop waits for the callback to finish.
Dispatch(l) ==
    /\ pc' = [pc EXCEPT ![l] = "callback"]
    /\ EndRequest(l)
    /\ UNCHANGED <<idx, first_run, ticks>>

\* `continue` on no data, but the project's entry is dropped as stale.
NoDataForgets(l, project_id) ==
    /\ obs' = [obs EXCEPT ![l] = None]
    /\ NextIteration(l)
    /\ previous_status' =
          IF l = "pipeline" THEN [x \in DOMAIN previous_status \ {project_id} |-> previous_status[x]]
          ELSE previous_status
    /\ previous_push' =
          IF l = "push" THEN [x \in DOMAIN previous_push \ {project_id} |-> previous_push[x]]
          ELSE previous_push
    /\ previous_mr' =
          IF l = "mr" THEN [x \in DOMAIN previous_mr \ {project_id} |-> previous_mr[x]] ELSE previous_mr
    /\ UNCHANGED <<projects, prev, event, running, failure, polling>>

\* The per-project fetch gave nothing (None, [], no push entry): `continue`.
NoData(l, project_id) ==
    /\ obs' = [obs EXCEPT ![l] = None]
    /\ NextIteration(l)
    /\ UNCHANGED <<projects, prev, event, detector, running, failure, polling>>

\* `await asyncio.sleep(poll_interval)` is over: a tick begins.
Sleep(l, limit) ==
    /\ pc[l] = "sleep"
    /\ ticks[l] < limit
    /\ pc' = [pc EXCEPT ![l] = "projects"]
    /\ log' = [log EXCEPT ![l] = << >>]
    \* the locals of the last tick are dead: each is assigned before it is read
    /\ projects' = [projects EXCEPT ![l] = << >>]
    /\ idx' = [idx EXCEPT ![l] = 0]
    /\ obs' = [obs EXCEPT ![l] = None]
    /\ prev' = [prev EXCEPT ![l] = None]
    \* fetch_all_projects is called
    /\ StartRequest(l)
    /\ UNCHANGED <<first_run, event, detector, running, failure, polling, ticks>>
    /\ UNCHANGED <<monitor_previous_status, startup>>

\* `projects = await api.fetch_all_projects(...)`, `if not projects: continue`
FetchProjects(l, resp) ==
    /\ pc[l] = "projects"
    /\ LET r == fetch_all_projects(resp) IN
       IF r.tag = "raise"
       THEN /\ Propagate(l, "fetch")
            /\ UNCHANGED <<locals, ticks>>
       ELSE IF Falsy(r)
       THEN /\ pc' = [pc EXCEPT ![l] = "sleep"]
            /\ ticks' = [ticks EXCEPT ![l] = @ + 1]
            /\ projects' = [projects EXCEPT ![l] = << >>]
            /\ EndRequest(l)
            /\ UNCHANGED <<first_run, idx, obs, prev, event, failure, polling>>
       ELSE /\ pc' = [pc EXCEPT ![l] = "item"]
            /\ projects' = [projects EXCEPT ![l] = r.value]
            /\ idx' = [idx EXCEPT ![l] = 1]
            \* the fetch of the first project is called
            /\ StartRequest(l)
            /\ UNCHANGED <<first_run, obs, prev, event, failure, polling, ticks>>
    /\ UNCHANGED <<detector, running, log, monitor_previous_status, startup>>

\* One iteration of `for project in projects`, from the per-project fetch
\* up to the next await: the callback, the next fetch, or the sleep.
ProcessProject(l, resp) ==
    /\ pc[l] = "item"
    /\ LET project == projects[l][idx[l]]
           project_id == project.id
           r == Fetch(l, resp)
           o == IF r.tag = "raise" THEN r ELSE Observe(l, r)
           entry(data, called) ==
               [project_id |-> project_id, data |-> data, called |-> called]
       IN
       CASE r.tag = "raise" ->
              \* get_json let an exception through
              /\ Propagate(l, "fetch")
              /\ UNCHANGED <<locals, detector, running, ticks, log>>
         [] r.tag # "raise" /\ o.tag = "raise" ->
              \* KeyError: an entry of the feed has no push_data key
              /\ Propagate(l, "KeyError push_data")
              /\ UNCHANGED <<locals, detector, running, ticks, log>>
         [] o.tag = "none" ->
              /\ log' = [log EXCEPT ![l] = Append(@, entry(FALSE, FALSE))]
              /\ NoData(l, project_id)
         [] o.tag = "json" ->
              LET p == Lookup(l, project_id, o.value, previous_status,
                              previous_push, previous_mr)
                  kind == Classify(l, p, o.value, first_run[l])
                  v == Value(l, o.value)
              IN
              /\ obs' = [obs EXCEPT ![l] = o.value]
              /\ prev' = [prev EXCEPT ![l] = p]
              /\ previous_status' =
                    IF l = "pipeline" /\ Updates(kind)
                    THEN DictSet(previous_status, project_id, v)
                    ELSE previous_status
              /\ previous_push' =
                    IF l = "push" /\ Updates(kind)
                    THEN DictSet(previous_push, project_id, v)
                    ELSE previous_push
              /\ previous_mr' =
                    IF l = "mr" /\ Updates(kind)
                    THEN DictSet(previous_mr, project_id,
                           DictSet(IF project_id \in DOMAIN previous_mr
                                   THEN previous_mr[project_id]
                                   ELSE EmptyDict,
                                   o.value.id, v))
                    ELSE previous_mr
              /\ log' = [log EXCEPT ![l] = Append(@, entry(TRUE, kind = "event"))]
              /\ UNCHANGED projects
              /\ CASE kind = "event" ->
                       /\ event' = [event EXCEPT ![l] =
                                       BuildEvent(l, project, o.value)]
                       /\ running' = [running EXCEPT ![l] = @ + 1]
                       /\ Dispatch(l)
                       /\ UNCHANGED <<failure, polling>>
                   [] kind = "keyerror" ->
                       /\ Propagate(l, "KeyError")
                       /\ UNCHANGED <<first_run, idx, event, running, ticks>>
                   [] OTHER ->
                       /\ NextIteration(l)
                       /\ UNCHANGED <<event, running, failure, polling>>
    /\ UNCHANGED <<monitor_previous_status, startup>>

\* telegram_notification_callback: how a call of it ends.
\*   "sent"         bot.send_message succeeded
\*   "send_failed"  bot.send_message raised: caught and logged (l. 161-169)
\*   "raised"       an exception outside that try: the unpacking of a
\*                  repo_mapping entry (l. 75), template.format raising
\*                  other than KeyError (l. 157-160)
CallbackOutcomes == {"sent", "send_failed", "raised"}

telegram_notification_callback(how) ==
    IF how \in {"sent", "send_failed"} THEN "return" ELSE "raise"

\* The callback awaited by loop l finishes.
CallbackEnds(l, how) ==
    /\ running[l] > 0
    /\ running' = [running EXCEPT ![l] = @ - 1]
    /\ IF telegram_notification_callback(how) = "return"
       THEN /\ IF pc[l] = "callback"
               THEN NextIteration(l)
               ELSE UNCHANGED <<pc, idx, first_run, ticks, http>>
            /\ UNCHANGED <<failure, polling>>
       ELSE /\ IF pc[l] = "callback"
               THEN Propagate(l, "callback")
               ELSE UNCHANGED <<pc, failure, polling, http>>
            /\ UNCHANGED <<idx, first_run, ticks>>
    /\ event' = [event EXCEPT ![l] = None]
    /\ UNCHANGED <<projects, obs, prev, detector, log>>
    /\ UNCHANGED <<monitor_previous_status, startup>>

(***************************************************************************)
(* Specifications.                                                         *)
(***************************************************************************)
InitState(started) ==
    /\ pc = [l \in Coroutines |-> IF l \in started THEN "sleep" ELSE "idle"]
    /\ first_run = [l \in Coroutines |-> TRUE]
    /\ projects = [l \in Coroutines |-> << >>]
    /\ idx = [l \in Coroutines |-> 0]
    /\ obs = [l \in Coroutines |-> None]
    /\ prev = [l \in Coroutines |-> None]
    /\ event = [l \in Coroutines |-> None]
    /\ previous_status = EmptyDict
    /\ previous_push = EmptyDict
    /\ previous_mr = EmptyDict
    /\ monitor_previous_status = EmptyDict
    /\ running = [l \in Coroutines |-> 0]
    /\ failure = [l \in Coroutines |-> "none"]
    /\ polling = "running"
    /\ ticks = [l \in Coroutines |-> 0]
    /\ log = [l \in Coroutines |-> << >>]
    /\ session = None
    /\ sessions = 0
    /\ request = [l \in Coroutines |-> None]

\* The state once the entry point has started its loops.
Started(loops, entry) ==
    /\ InitState(loops)
    /\ config = [telegram_token |-> TRUE, gitlab_token |-> TRUE]
    /\ process = [entry |-> entry, state |-> "running"]

\* One poll loop called on its own: the loops share no state, so what one
\* loop does is checked loop by loop.
Init == \E l \in Loops : Started({l}, "telegram_bot")

Next ==
    \E l \in Loops :
        \/ Sleep(l, MaxTicks)
        \/ \E resp \in ProjectsResponses : FetchProjects(l, resp)
        \/ \E resp \in ItemResponses(l) : ProcessProject(l, resp)
        \/ \E how \in CallbackOutcomes : CallbackEnds(l, how)

Spec == Init /\ [][Next]_vars

\* telegram_bot.start_polling: the three loops under one asyncio.gather.
\* The loops share no data, so the server's answers are kept to one
\* project and two values per loop here.
InitGather == Started(Loops, "telegram_bot")

SmallEntry(l, e) ==
    CASE l = "pipeline" -> e.id = 100
      [] l = "push" ->
           /\ Has(e, "push_data") /\ Has(e, "author_username")
           /\ e.push_data # None /\ Has(e.push_data, "ref")
           /\ e.push_data.ref = "main"
      [] l = "mr" -> e.id = 5 /\ Has(e, "author")

\* The project list arrives, or its fetch raises.
GatherProjectsResponses ==
    {r \in ProjectsResponses :
        /\ r.kind \in {"ok", "other_error"}
        /\ r.kind = "ok" => Len(r.body) = 1 /\ r.body[1].id = 1}

GatherItemResponses(l) ==
    {r \in ItemResponses(l) :
        /\ r.kind = "ok"
        /\ Len(r.body) = 1 /\ SmallEntry(l, r.body[1])}

\* An await of loop l that never completes: the server, or Telegram, keeps
\* the connection open and does not answer.
Stall(l) ==
    /\ pc[l] \in {"projects", "item", "callback"}
    /\ pc' = [pc EXCEPT ![l] = "stalled"]
    /\ UNCHANGED <<locals, detector, running, failure, polling, ticks, log>>
    /\ UNCHANGED <<monitor_previous_status, startup, http>>

\* The steps loop l takes when its awaits complete.
LoopStep(l) ==
    \/ Sleep(l, GatherTicks)
    \/ \E resp \in GatherProjectsResponses : FetchProjects(l, resp)
    \/ \E resp \in GatherItemResponses(l) : ProcessProject(l, resp)
    \/ \E how \in CallbackOutcomes : CallbackEnds(l, how)

NextGather == \E l \in Loops : LoopStep(l) \/ Stall(l)

\* The event loop runs a coroutine whose await has completed whenever there
\* is one; only a stalled await is never completed.
FairGather ==
    InitGather /\ [][NextGather]_vars /\ WF_vars(\E l \in Loops : LoopStep(l))

(***************************************************************************)
(* The terms of the properties.  Unseen / Known(v) is the detector's state *)
(* for a key; the rules below are the specification's, not the code's.     *)
(***************************************************************************)
\* The detector's state for the key of observation o of project project_id,
\* read in the dicts given: None (Unseen) or Known(v).
StateOf(l, project_id, o, d_status, d_push, d_mr) ==
    CASE l = "pipeline" ->
           IF project_id \in DOMAIN d_status
           THEN Known(d_status[project_id]) ELSE None
      [] l = "push" ->
           IF project_id \in DOMAIN d_push
           THEN Known(d_push[project_id]) ELSE None
      [] l = "mr" ->
           IF project_id \in DOMAIN d_mr /\ o.id \in DOMAIN d_mr[project_id]
           THEN Known(d_mr[project_id][o.id]) ELSE None

\* Known(B) for an observation B: pipeline id and status, push event id,
\* merge request state.
KnownOf(l, o) ==
    CASE l = "pipeline" -> Known([id |-> o.id, status |-> o.status])
      [] l = "push" -> Known(o.id)
      [] l = "mr" -> Known(o.state)

\* The equality rules: the observation o differs from the known value v.
Changed(l, v, o) ==
    CASE l = "pipeline" -> ~(v.id = o.id /\ v.status = o.status)
      [] l = "push" -> v # o.id
      [] l = "mr" -> v # o.state

\* An observation has the fields of its kind: a push its branch,
\* commit_count and author, a merge request its author.
WellFormed(l, o) ==
    CASE l = "pipeline" -> TRUE
      [] l = "push" ->
           /\ Has(o.push_data, "ref") /\ Has(o.push_data, "commit_count")
           /\ Has(o, "author_username")
      [] l = "mr" -> Has(o, "author") /\ Has(o.author, "username")

\* In this step loop l finished an iteration of its `for` (the fetch of
\* the project returned and was processed) ...
Iterated(l) == pc[l] = "item" /\ Len(log'[l]) = Len(log[l]) + 1

\* ... and the iteration had an observation, obs'[l].
Observed(l) == Iterated(l) /\ Last(log'[l]).data

ProjectId(l) == projects[l][idx[l]].id

\* The detector's state for the observed key before and after the step.
Before(l) ==
    StateOf(l, ProjectId(l), obs'[l], previous_status, previous_push,
            previous_mr)

After(l) ==
    StateOf(l, ProjectId(l), obs'[l], previous_status', previous_push',
            previous_mr')

\* The callback was invoked for the observation of the step.
Called(l) == Last(log'[l]).called /\ running'[l] = running[l] + 1

NotCalled(l) == ~Last(log'[l]).called /\ running'[l] = running[l]

\* State predicates on the last iteration of loop l in the current tick.
Processed(l) == Len(log[l]) > 0 /\ Last(log[l]).data /\ obs[l] # None

NoCallbackInTick(l) == \A i \in 1..Len(log[l]) : ~log[l][i].called

\* The loop is in its first tick (or asleep right after it).
FirstTick(l) == ticks[l] = 0 \/ (ticks[l] = 1 /\ pc[l] = "sleep")

(***************************************************************************)
(* Properties.                                                             *)
(***************************************************************************)
\* C1 (no storm on start): in each loop, the callback is not invoked during
\* the first tick, however many projects and keys the tick observes.
NoStormOnStart ==
    \A l \in Loops :
        FirstTick(l) => NoCallbackInTick(l) /\ running[l] = 0

\* C1 witness: a first tick is over that observed two projects, both Unseen
\* before, and nothing was dispatched.
NoStormOnStartWitness ==
    \E l \in Loops :
        /\ ticks[l] = 1 /\ pc[l] = "sleep"
        /\ Len(log[l]) = 2
        /\ log[l][1].data /\ log[l][2].data
        /\ log[l][1].project_id # log[l][2].project_id
        /\ NoCallbackInTick(l)

\* C2 as stated: whenever the state of a key is Known(A) and an observation
\* B differs from A, the callback is invoked once for it and the state
\* becomes Known(B).
SingleTransitionSingleEvent ==
    [][\A l \in Loops :
         (/\ Observed(l)
          /\ WellFormed(l, obs'[l])
          /\ Before(l) # None
          /\ Changed(l, Before(l).known, obs'[l]))
         => Called(l) /\ After(l) = KnownOf(l, obs'[l])]_vars

\* C2 amended: whenever the state of a key is Known(A) and an observation B
\* differs from A, the state becomes Known(B); the callback is invoked once
\* for it if the loop's first_run is cleared, and not at all while
\* first_run is set.
SingleTransitionGated ==
    [][\A l \in Loops :
         (/\ Observed(l)
          /\ WellFormed(l, obs'[l])
          /\ Before(l) # None
          /\ Changed(l, Before(l).known, obs'[l]))
         => /\ After(l) = KnownOf(l, obs'[l])
            /\ IF first_run[l] THEN NotCalled(l) ELSE Called(l)]_vars

\* C2 witness: a transition of a known key was just dispatched.
SingleTransitionWitness ==
    \E l \in Loops :
        /\ Processed(l)
        /\ prev[l] # None
        /\ Changed(l, prev[l].known, obs[l])
        /\ Last(log[l]).called
        /\ pc[l] = "callback"
        /\ StateOf(l, Last(log[l]).project_id, obs[l], previous_status,
                   previous_push, previous_mr) = KnownOf(l, obs[l])

IdempotentRepeat ==
    [][\A l \in Loops :
         (/\ Observed(l)
          /\ Before(l) # None
          /\ ~Changed(l, Before(l).known, obs'[l]))
         => NotCalled(l) /\ UNCHANGED detector]_vars

\* C4 witness: the same value was observed again in a third tick.
IdempotentRepeatWitness ==
    \E l \in Loops :
        /\ Processed(l)
        /\ prev[l] # None
        /\ ~Changed(l, prev[l].known, obs[l])
        /\ ticks[l] = 2 /\ pc[l] = "item"

\* C5 as stated (handler failure is absorbed): an exception raised by the
\* callback never ends a poll loop and never reaches start_polling.
HandlerFailureAbsorbed ==
    \A l \in Loops : ~(pc[l] = "crashed" /\ failure[l] = "callback")

\* The detector's entry of project q in dict d.
EntryOf(d, q) == IF q \in DOMAIN d THEN Known(d[q]) ELSE None

\* The step leaves the detector entries of every project but q as they are.
OthersUntouched(q) ==
    \A r \in ProjectIds \ {q} :
        /\ EntryOf(previous_status', r) = EntryOf(previous_status, r)
        /\ EntryOf(previous_push', r) = EntryOf(previous_push, r)
        /\ EntryOf(previous_mr', r) = EntryOf(previous_mr, r)

\* Earlier in the tick another project's fetch gave no data.
SkippedEarlier(l) ==
    \E i \in 1..Len(log[l]) :
        ~log[l][i].data /\ log[l][i].project_id # ProjectId(l)

\* C6 (partial fetch failure isolation): an iteration whose fetch gave no
\* data changes nothing in the detector, dispatches nothing and goes on to
\* the next project; an iteration touches the entries of its own project
\* only; and after a project of the tick gave no data, the transition of
\* another project is still detected and dispatched.
PartialFetchFailureIsolation ==
    [][\A l \in Loops :
         /\ (Iterated(l) /\ ~Last(log'[l]).data)
            => /\ UNCHANGED detector
               /\ NotCalled(l)
               /\ idx[l] < Len(projects[l])
                  => /\ pc'[l] = "item"
                     /\ idx'[l] = idx[l] + 1
                     /\ projects'[l] = projects[l]
         /\ Iterated(l) => OthersUntouched(ProjectId(l))
         /\ (/\ Observed(l)
             /\ SkippedEarlier(l)
             /\ ~first_run[l]
             /\ WellFormed(l, obs'[l])
             /\ Before(l) # None
             /\ Changed(l, Before(l).known, obs'[l]))
            => Called(l) /\ After(l) = KnownOf(l, obs'[l])]_vars

\* C6 witness: in one tick project P, known to the detector, gave no data
\* and the transition of project Q was dispatched.
PartialFetchFailureWitness ==
    \E l \in Loops :
        /\ Len(log[l]) = 2
        /\ ~log[l][1].data
        /\ log[l][2].called
        /\ log[l][1].project_id # log[l][2].project_id
        /\ log[l][1].project_id \in
             DOMAIN previous_status \cup DOMAIN previous_push
               \cup DOMAIN previous_mr

\* The project of the iteration was not processed earlier in this tick.
FirstOfProjectInTick(l) ==
    \A i \in 1..Len(log[l]) : log[l][i].project_id # ProjectId(l)

DispatchOrderedNotReentrant ==
    \A l \in Loops :
        /\ running[l] \in {0, 1}
        /\ running[l] = 1 <=> pc[l] = "callback"
        /\ Len(log[l]) <= Len(projects[l])
        /\ \A i \in 1..Len(log[l]) : log[l][i].project_id = projects[l][i].id
        /\ pc[l] = "callback" => Len(log[l]) = idx[l] /\ Last(log[l]).called
        /\ pc[l] = "item" => Len(log[l]) = idx[l] - 1
        /\ pc[l] \in {"sleep", "projects"} => running[l] = 0

\* C8 witness: the second callback of a tick runs, for the second project of
\* the list, after the first one returned.
DispatchOrderedWitness ==
    \E l \in Loops :
        /\ pc[l] = "callback"
        /\ Len(log[l]) = 2
        /\ log[l][1].called /\ log[l][2].called
        /\ log[l][1].project_id # log[l][2].project_id

\* C10 as stated (at most one event per project per tick): in a tick the
\* callback is invoked at most once with a given project_id.
AtMostOneEventPerProjectPerTick ==
    \A l \in Loops :
        \A i, j \in 1..Len(log[l]) :
            (i < j /\ log[l][i].called /\ log[l][j].called)
            => log[l][i].project_id # log[l][j].project_id

\* The callbacks of loop l in the current tick for project p, and the
\* entries of the tick's project list with id p that the loop has reached.
CallsFor(l, p) ==
    Cardinality({i \in DOMAIN log[l] :
                    log[l][i].called /\ log[l][i].project_id = p})

EntriesFor(l, p) ==
    Cardinality({j \in DOMAIN projects[l] :
                    j <= idx[l] /\ projects[l][j].id = p})

\* C10 amended (at most one event per list entry per tick): in a tick the
\* callback is invoked at most once for each entry of the project list, so
\* at most once with a given project_id when the list names it once, and for
\* the merge-request loop also when the fetched list holds several changed
\* merge requests.
AtMostOneEventPerListEntry ==
    \A l \in Loops : \A p \in ProjectIds : CallsFor(l, p) <= EntriesFor(l, p)

\* C10 witness: a tick over a list of two different projects has ended, and
\* the callback was invoked once for each of them.
AtMostOneEventWitness ==
    \E l \in Loops :
        /\ pc[l] = "sleep"
        /\ Len(projects[l]) = 2
        /\ projects[l][1].id # projects[l][2].id
        /\ \A p \in ProjectIds : CallsFor(l, p) = 1

\* Loop l has stopped: an exception ended it, or one of its awaits never
\* completes.
Stopped(l) == pc[l] \in {"crashed", "stalled"}

\* C9 (loop independence): under asyncio.gather, whatever the other two
\* loops do -- also when they are stalled in a slow fetch or a slow callback
\* or were ended by an exception -- every loop that has not itself stopped
\* goes on to complete all its ticks.
LoopIndependence ==
    <>(\A l \in Loops : ticks[l] = GatherTicks \/ Stopped(l))

\* C9 witness: one loop was ended by an exception, another is stalled, and
\* the third has completed all its ticks.
LoopIndependenceWitness ==
    \E a, b, c \in Loops :
        /\ pc[a] = "crashed"
        /\ pc[b] = "stalled"
        /\ ticks[c] = GatherTicks /\ pc[c] = "sleep"

\* C11 as stated (the fetcher never raises): no exception leaves get_json,
\* so no poll loop is ever ended by one of its fetches raising.
FetcherNeverRaises ==
    \A l \in Loops : ~(pc[l] = "crashed" /\ failure[l] = "fetch")

(***************************************************************************)
(* The entry points: telegram_bot.main and gitlab_monitor.monitor.         *)
(***************************************************************************)
\* telegram_bot.main (l. 192-209): the Telegram token is tested, then
\* start_polling is made a task and its three loops reach their first sleep.
main ==
    /\ process = [entry |-> "telegram_bot", state |-> "start"]
    /\ IF ~config.telegram_token
       THEN /\ process' = [process EXCEPT !.state = "exited"]
            /\ UNCHANGED pc
       ELSE /\ process' = [process EXCEPT !.state = "running"]
            /\ pc' = [l \in Coroutines |->
                        IF l \in Loops THEN "sleep" ELSE pc[l]]
    /\ UNCHANGED <<locals, detector, running, failure, polling, ticks, log>>
    /\ UNCHANGED <<monitor_previous_status, config, http>>

\* gitlab_monitor.monitor up to its `while True` (l. 61-71): the GitLab
\* token is tested, then the loop reaches its first sleep.
monitor ==
    /\ process = [entry |-> "gitlab_monitor", state |-> "start"]
    /\ IF ~config.gitlab_token
       THEN /\ process' = [process EXCEPT !.state = "exited"]
            /\ UNCHANGED pc
       ELSE /\ process' = [process EXCEPT !.state = "running"]
            /\ pc' = [pc EXCEPT !["monitor"] = "sleep"]
    /\ UNCHANGED <<locals, detector, running, failure, polling, ticks, log>>
    /\ UNCHANGED <<monitor_previous_status, config, http>>

\* An exception leaves monitor(): asyncio.run(monitor()) ends (l. 119-124).
MonitorRaises(why) ==
    /\ pc' = [pc EXCEPT !["monitor"] = "crashed"]
    /\ failure' = [failure EXCEPT !["monitor"] = why]
    /\ process' = [process EXCEPT !.state = "exited"]
    /\ EndRequest("monitor")
    /\ UNCHANGED <<polling, config>>

\* End of an iteration of monitor's `for project in projects` (l. 78): the
\* next project, or back to `while True` and its sleep.
MonitorNextIteration ==
    IF idx["monitor"] < Len(projects["monitor"])
    THEN /\ idx' = [idx EXCEPT !["monitor"] = @ + 1]
         /\ pc' = [pc EXCEPT !["monitor"] = "item"]
         /\ StartRequest("monitor")
         /\ UNCHANGED ticks
    ELSE /\ pc' = [pc EXCEPT !["monitor"] = "sleep"]
         /\ ticks' = [ticks EXCEPT !["monitor"] = @ + 1]
         /\ EndRequest("monitor")
         /\ UNCHANGED idx

\* `projects = await api.fetch_all_projects(...)`; on None a second sleep and
\* `continue`; an empty list runs the `for` zero times (l. 73-78).
MonitorFetchProjects(resp) ==
    /\ pc["monitor"] = "projects"
    /\ LET r == fetch_all_projects(resp) IN
       IF r.tag = "raise"
       THEN /\ MonitorRaises("fetch")
            /\ UNCHANGED <<projects, idx, ticks>>
       ELSE IF Falsy(r)
       THEN /\ pc' = [pc EXCEPT !["monitor"] = "sleep"]
            /\ ticks' = [ticks EXCEPT !["monitor"] = @ + 1]
            /\ projects' = [projects EXCEPT !["monitor"] = << >>]
            /\ EndRequest("monitor")
            /\ UNCHANGED <<idx, failure, polling, startup>>
       ELSE /\ pc' = [pc EXCEPT !["monitor"] = "item"]
            /\ projects' = [projects EXCEPT !["monitor"] = r.value]
            /\ idx' = [idx EXCEPT !["monitor"] = 1]
            /\ StartRequest("monitor")
            /\ UNCHANGED <<failure, polling, ticks, startup>>
    /\ UNCHANGED <<first_run, obs, prev, event, detector, running, log>>
    /\ UNCHANGED monitor_previous_status

\* One iteration of monitor's `for project in projects` (l. 78-112): the
\* pipeline is fetched and compared, a change is stored and logged.
MonitorProcessProject(resp) ==
    /\ pc["monitor"] = "item"
    /\ LET project == projects["monitor"][idx["monitor"]]
           project_id == project.id
           r == fetch_pipeline(resp)
           entry(data, called) ==
               [project_id |-> project_id, data |-> data, called |-> called]
       IN
       CASE r.tag = "raise" ->
              /\ MonitorRaises("fetch")
              /\ UNCHANGED <<idx, obs, prev, ticks, log>>
              /\ UNCHANGED monitor_previous_status
         [] r.tag = "none" ->
              /\ log' = [log EXCEPT !["monitor"] = Append(@, entry(FALSE, FALSE))]
              /\ obs' = [obs EXCEPT !["monitor"] = None]
              /\ MonitorNextIteration
              /\ UNCHANGED <<prev, failure, polling, startup>>
              /\ UNCHANGED monitor_previous_status
         [] r.tag = "json" ->
              LET pipeline == r.value
                  p == DictGet(monitor_previous_status, project_id)
                  changed == /\ p # None
                             /\ \/ p.known.id # pipeline.id
                                \/ p.known.status # pipeline.status
              IN
              /\ obs' = [obs EXCEPT !["monitor"] = pipeline]
              /\ prev' = [prev EXCEPT !["monitor"] = p]
              /\ monitor_previous_status' =
                    IF p = None \/ changed
                    THEN DictSet(monitor_previous_status, project_id,
                                 [id |-> pipeline.id,
                                  status |-> pipeline.status,
                                  name |-> project.name])
                    ELSE monitor_previous_status
              \* logging.info(...) is the notification of this program
              /\ log' = [log EXCEPT !["monitor"] = Append(@, entry(TRUE, changed))]
              /\ MonitorNextIteration
              /\ UNCHANGED <<failure, polling, startup>>
    /\ UNCHANGED <<first_run, projects, event, detector, running>>

\* A process from its start: either entry point, with any configuration.
InitStartup ==
    /\ InitState({})
    /\ config \in [telegram_token : BOOLEAN, gitlab_token : BOOLEAN]
    /\ process \in [entry : {"telegram_bot", "gitlab_monitor"},
                    state : {"start"}]

NextStartup ==
    \/ main
    \/ monitor
    \/ \E l \in Loops : LoopStep(l)
    \/ Sleep("monitor", MaxTicks)
    \/ \E resp \in ProjectsResponses : MonitorFetchProjects(resp)
    \/ \E resp \in ItemResponses("pipeline") : MonitorProcessProject(resp)

SpecStartup == InitStartup /\ [][NextStartup]_vars

\* C12 as stated (startup credential check): with no GitLab token in the
\* configuration no loop is ever started, under either entry point.
StartupCredentialCheck ==
    ~config.gitlab_token => \A l \in Coroutines : pc[l] = "idle"

\* The fields of event e that come from the observation are those of o.
CarriesObservation(l, e, o) ==
    CASE l = "pipeline" ->
           e.type = "pipeline" /\ e.pipeline_id = o.id /\ e.status = o.status
      [] l = "push" ->
           /\ e.type = "push" /\ e.event_id = o.id
           /\ e.branch = o.push_data.ref
           /\ e.commit_count = o.push_data.commit_count
      [] l = "mr" ->
           e.type = "merge_request" /\ e.mr_id = o.id /\ e.state = o.state

\* C13 (event content): the event a callback holds carries the fields of
\* the observation that caused the transition, which differs from the value
\* stored before, and the id and name of the project-list entry being
\* processed.
EventContent ==
    \A l \in Loops :
        event[l] # None =>
            /\ obs[l] # None /\ prev[l] # None
            /\ Changed(l, prev[l].known, obs[l])
            /\ CarriesObservation(l, event[l], obs[l])
            /\ event[l].project_id = projects[l][idx[l]].id
            /\ event[l].project_name = projects[l][idx[l]].name

\* C13 witness: the callback holds the event of the second project of a
\* list of two different projects.
EventContentWitness ==
    \E l \in Loops :
        /\ pc[l] = "callback" /\ event[l] # None
        /\ idx[l] = 2
        /\ projects[l][1].id # projects[l][2].id
        /\ event[l].project_name = projects[l][2].name

\* Loop l is inside a tick: between the end of a sleep and the next sleep.
InTick(l) == pc[l] \in {"projects", "item", "callback"}

\* C14 as stated (warm-up flag timing): the gate is closed (first_run set)
\* during the first tick and open in every later tick, whatever the first
\* tick fetched.
WarmUpOpenFromSecondTick ==
    \A l \in Loops :
        /\ ticks[l] = 0 => first_run[l]
        /\ (ticks[l] >= 1 /\ InTick(l)) => ~first_run[l]

\* In this step loop l ends a tick by running its `for` to the end.
CompletesCycle(l) == pc[l] \in {"item", "callback"} /\ pc'[l] = "sleep"

\* C14 amended: the gate is closed from the start of the loop until the end
\* of the first tick whose `for` over a non-empty project list ran to its
\* end, and open from then on; a tick whose project list is missing or
\* empty leaves it as it was.
WarmUpEndsWithFirstFullCycle ==
    [][\A l \in Loops :
         /\ ticks[l] = 0 => first_run[l]
         /\ first_run'[l] = (first_run[l] /\ ~CompletesCycle(l))]_vars

\* C14 witness: a loop is in its second tick with the gate still closed,
\* its first tick having had no project list.
WarmUpWitness ==
    \E l \in Loops : ticks[l] = 1 /\ pc[l] = "item" /\ first_run[l]

\* C15 as stated (failure absorption): no response of a fetch surfaces as
\* an exception in a poll loop; here for responses whose observed entry
\* lacks ref, commit_count or author.
FetchOutcomesAbsorbed ==
    \A l \in Loops : ~(pc[l] = "crashed" /\ failure[l] = "KeyError")

\* C16 as stated (push scan): the entries of a feed that bear no push
\* metadata are skipped without error.
PushScanSkipsQuietly ==
    ~(pc["push"] = "crashed" /\ failure["push"] = "KeyError push_data")

\* The step treated the observation as unchanged: nothing stored, nothing
\* dispatched, the loop goes on.
TreatedAsUnchanged(l) ==
    /\ After(l) = Before(l)
    /\ NotCalled(l)
    /\ pc'[l] # "crashed"

\* C17 (equality rules): against a Known value an observation is treated as
\* unchanged exactly when the compared fields are equal: pipeline id and
\* status, push event id, the state stored for the same merge request id.
EqualityRules ==
    [][\A l \in Loops :
         (Observed(l) /\ Before(l) # None)
         => (TreatedAsUnchanged(l) <=> ~Changed(l, Before(l).known, obs'[l]))]_vars

\* C17 witness: a pipeline with the stored id and another status was
\* dispatched as a transition.
EqualityRulesWitness ==
    /\ Processed("pipeline")
    /\ prev["pipeline"] # None
    /\ prev["pipeline"].known.id = obs["pipeline"].id
    /\ prev["pipeline"].known.status # obs["pipeline"].status
    /\ Last(log["pipeline"]).called
    /\ pc["pipeline"] = "callback"

\* The detector's state for the key of the last observation of loop l.
StoredForLast(l) ==
    StateOf(l, Last(log[l]).project_id, obs[l], previous_status,
            previous_push, previous_mr)

\* C18 (commit before dispatch): while the callback of a transition runs,
\* and after it returned or failed, the detector holds Known(new value) for
\* the key: the update is made before the call and is not rolled back.
CommitBeforeDispatch ==
    \A l \in Loops :
        (Processed(l) /\ Last(log[l]).called)
        => StoredForLast(l) = KnownOf(l, obs[l])

\* C18 witness: the callback of a transition raised and ended the loop; the
\* detector holds the new value.
CommitBeforeDispatchWitness ==
    \E l \in Loops :
        /\ pc[l] = "crashed" /\ failure[l] = "callback"
        /\ Processed(l) /\ Last(log[l]).called
        /\ prev[l] # None
        /\ StoredForLast(l) # prev[l]
        /\ StoredForLast(l) = KnownOf(l, obs[l])

\* The step writes the dict of loop l only, and in it only the entry of the
\* observed key.
OnlyObservedKeyWritten(l) ==
    /\ OthersUntouched(ProjectId(l))
    /\ l # "pipeline" => previous_status' = previous_status
    /\ l # "push" => previous_push' = previous_push
    /\ l # "mr" => previous_mr' = previous_mr
    /\ l = "mr" =>
          \A m \in MrIds \ {obs'[l].id} :
              StateOf(l, ProjectId(l), [id |-> m], previous_status',
                      previous_push', previous_mr')
              = StateOf(l, ProjectId(l), [id |-> m], previous_status,
                        previous_push, previous_mr)

\* C19 (the detector tracks the last observation): the maps start empty; a
\* step that observes a key leaves the map holding exactly that observation
\* for the key and nothing else changed; every other step, a project or a
\* tick without data included, changes nothing in the maps.
DetectorTracksLastObservation ==
    [][/\ \A l \in Loops :
            Observed(l) => /\ After(l) = KnownOf(l, obs'[l])
                           /\ OnlyObservedKeyWritten(l)
       /\ (\E l \in Loops : Observed(l)) \/ UNCHANGED detector]_vars

\* C19 witness: during warm-up a known key was observed with another value:
\* no event, and the map holds the new value.
DetectorTracksWitness ==
    \E l \in Loops :
        /\ Processed(l) /\ prev[l] # None
        /\ Changed(l, prev[l].known, obs[l])
        /\ ~Last(log[l]).called /\ pc[l] # "crashed"
        /\ StoredForLast(l) = KnownOf(l, obs[l])

\* C20 (single shared session): however the get_json calls of the three
\* loops interleave, at most one ClientSession is ever created, it is the
\* one kept in the global, and every GET in flight runs on it.
SingleSharedSession ==
    /\ sessions <= 1
    /\ session = (IF sessions = 0 THEN None ELSE Known(1))
    /\ \A l \in Loops : request[l] # None => request[l] = session

\* C20 witness: the three loops each have a GET in flight, all on the one
\* session created.
SingleSharedSessionWitness ==
    /\ sessions = 1
    /\ \A l \in Loops :
          pc[l] \in {"projects", "item"} /\ request[l] = Known(1)

\* What the step of loop l did with its observation.
Outcome(l) ==
    IF pc'[l] = "crashed" THEN "keyerror"
    ELSE IF Called(l) THEN "event"
    ELSE "quiet"

\* What a loop without the first_run test does with observation o when the
\* detector holds p for its key (the per-key first-sighting rule alone): a
\* first sighting or an equal value is quiet, a changed value is made an
\* event, which needs the fields of the event.
FirstSightingRule(l, p, o) ==
    IF p = None THEN "quiet"
    ELSE IF ~Changed(l, p.known, o) THEN "quiet"
    ELSE IF ~WellFormed(l, o) THEN "keyerror"
    ELSE "event"

\* C21 (the warm-up flag is redundant): in a tick whose project list has
\* pairwise different ids every iteration does what the loop without the
\* first_run test does, so the two emit the same events; an iteration
\* differs only by staying quiet on a changed value while first_run is
\* still set (the first non-empty tick) and the list repeats a project id.
WarmUpFlagRedundant ==
    [][\A l \in Loops :
         Observed(l) =>
           LET rule == FirstSightingRule(l, Before(l), obs'[l]) IN
           /\ DistinctIds(projects[l]) => Outcome(l) = rule
           /\ Outcome(l) # rule =>
                 /\ first_run[l] /\ ~DistinctIds(projects[l])
                 /\ Outcome(l) = "quiet"]_vars

\* C21 witness: after a first tick over two different projects, a second
\* tick over two different projects dispatched a change of the second one:
\* each key was first seen in the first tick and the flag muted nothing.
WarmUpFlagRedundantWitness ==
    \E l \in Loops :
        /\ ticks[l] = 1 /\ ~first_run[l]
        /\ Len(projects[l]) = 2 /\ DistinctIds(projects[l])
        /\ idx[l] = 2 /\ pc[l] = "callback"
        /\ Len(log[l]) = 2 /\ log[l][1].data /\ ~log[l][1].called
        /\ log[l][2].called

\* The keys of loop l's detector in the dicts given: project ids, and for
\* the merge request loop pairs of project id and merge request id.
Keys(l, d_status, d_push, d_mr) ==
    CASE l = "pipeline" -> DOMAIN d_status
      [] l = "push" -> DOMAIN d_push
      [] l = "mr" -> {k \in ProjectIds \X MrIds :
                        /\ k[1] \in DOMAIN d_mr
                        /\ k[2] \in DOMAIN d_mr[k[1]]}

\* The projects loop l holds a stored observation for.
KnownProjects(l) ==
    CASE l = "pipeline" -> DOMAIN previous_status
      [] l = "push" -> DOMAIN previous_push
      [] l = "mr" -> DOMAIN previous_mr

\* C22 (Known is permanent): no step removes a key from a detector; a step
\* that observes nothing (a project without data, a tick that does not list
\* the project) leaves every stored observation as it is and an observing
\* step writes its own key only; and a key known from an earlier tick that
\* is observed again is dispatched if its value differs from the stored
\* one and is quiet if it is equal.
KnownIsPermanent ==
    [][\A l \in Loops :
         /\ Keys(l, previous_status, previous_push, previous_mr)
              \subseteq Keys(l, previous_status', previous_push', previous_mr')
         /\ IF Observed(l) THEN OnlyObservedKeyWritten(l)
            ELSE (\E m \in Loops : Observed(m)) \/ UNCHANGED detector
         /\ (/\ Observed(l)
             /\ FirstOfProjectInTick(l)
             /\ Before(l) # None
             /\ WellFormed(l, obs'[l]))
            => IF Changed(l, Before(l).known, obs'[l])
               THEN Called(l) /\ After(l) = KnownOf(l, obs'[l])
               ELSE NotCalled(l) /\ After(l) = Before(l)]_vars

\* C22 witness: a tick from the third on has ended whose project list was
\* alpha alone; alpha's change was dispatched, and beta, absent from the
\* list for the whole tick, still has its stored observation.
KnownIsPermanentWitness ==
    \E l \in Loops :
        /\ pc[l] = "sleep" /\ ticks[l] >= 3
        /\ Len(projects[l]) = 1 /\ projects[l][1].id = 1
        /\ Len(log[l]) = 1 /\ log[l][1].called
        /\ 2 \in KnownProjects(l)

====
